---------------------------- MODULE Spec2Model ----------------------------
(***************************************************************************)
(* A model of src/dev/mod.ts, the development-mode orchestration of the    *)
(* framework: the directory collector (collectDir), the manifest generator *)
(* (generate, toImportSpecifier), the change detector (arraysEqual and the *)
(* FRSH_DEV_PREVIOUS_MANIFEST environment variable), the entrypoint        *)
(* collector (collectEntrypoints) and the dev cycle (dev).                  *)
(*                                                                         *)
(* Paths, keys and the environment value are strings, handled character    *)
(* by character as the code's string operations handle them.               *)
(***************************************************************************)
EXTENDS Integers, Sequences, FiniteSets, TLC

VARIABLES
    pc,          \* position of the running dev cycle (the next step of dev)
    cycle,       \* number of dev cycles started in this process
    dirs,        \* the project's routes/ and islands/ directories on disk
    scan,        \* the two collectDir calls of Promise.all, one per directory
    uc,          \* the background updateCheck promise
    env,         \* the FRSH_DEV_PREVIOUS_MANIFEST environment variable
    genFile,     \* <outDir>/fresh.gen.ts
    assets,      \* <outDir>/files
    depFile,     \* <outDir>/fresh.dependencies.js
    local,       \* dev's local variables of the running cycle
    hist,        \* history of the running cycle (steps executed, cause of halt, ...)
    host,        \* the process: Deno's version, the import map, the configured plugins
    call         \* a call of a pure function: its arguments and its result

vars == <<pc, cycle, dirs, scan, uc, env, genFile, assets, depFile, local, hist, host, call>>

---------------------------------------------------------------------------
(* Bounds of the model.                                                    *)

\* dev cycles run in one process
MaxCycles == 3

\* entries of a scanned directory tree
MaxEntries == 4

\* islands and plugins handed to collectEntrypoints
MaxIslands == 2
MaxPlugins == 2

\* route paths of a manifest handed to generate
MaxRoutes == 3

---------------------------------------------------------------------------
(* Strings.                                                                *)

Char(s, i) == SubSeq(s, i, i)

StartsWith(s, p) == Len(s) >= Len(p) /\ SubSeq(s, 1, Len(p)) = p

EndsWith(s, p) == Len(s) >= Len(p) /\ SubSeq(s, Len(s) - Len(p) + 1, Len(s)) = p

\* UTF-16 code unit of a character of the model's alphabet
CharCode(c) ==
    CASE c = "\"" -> 34
      [] c = "$" -> 36
      [] c = "," -> 44
      [] c = "-" -> 45
      [] c = "." -> 46
      [] c = "/" -> 47
      [] c = ":" -> 58
      [] c = "[" -> 91
      [] c = "\\" -> 92
      [] c = "]" -> 93
      [] c = "a" -> 97
      [] c = "b" -> 98
      [] c = "c" -> 99
      [] c = "d" -> 100
      [] c = "e" -> 101
      [] c = "f" -> 102
      [] c = "h" -> 104
      [] c = "i" -> 105
      [] c = "j" -> 106
      [] c = "l" -> 108
      [] c = "m" -> 109
      [] c = "n" -> 110
      [] c = "o" -> 111
      [] c = "p" -> 112
      [] c = "r" -> 114
      [] c = "s" -> 115
      [] c = "t" -> 116
      [] c = "u" -> 117
      [] c = "x" -> 120
      [] c = "{" -> 123
      [] c = "}" -> 125

\* String.prototype.split with a one-character separator
RECURSIVE SplitFrom(_, _, _, _)
SplitFrom(s, sep, i, cur) ==
    IF i > Len(s) THEN <<cur>>
    ELSE IF Char(s, i) = sep THEN <<cur>> \o SplitFrom(s, sep, i + 1, "")
    ELSE SplitFrom(s, sep, i + 1, cur \o Char(s, i))

Split(s, sep) == SplitFrom(s, sep, 1, "")

\* Array.prototype.join
RECURSIVE JoinWith(_, _)
JoinWith(parts, sep) ==
    IF Len(parts) = 0 THEN ""
    ELSE IF Len(parts) = 1 THEN parts[1]
    ELSE parts[1] \o sep \o JoinWith(Tail(parts), sep)

\* the comparison of Array.prototype.sort without a comparator: by code units
RECURSIVE StrLess(_, _)
StrLess(a, b) ==
    IF Len(b) = 0 THEN FALSE
    ELSE IF Len(a) = 0 THEN TRUE
    ELSE IF Char(a, 1) = Char(b, 1)
         THEN StrLess(SubSeq(a, 2, Len(a)), SubSeq(b, 2, Len(b)))
    ELSE CharCode(Char(a, 1)) < CharCode(Char(b, 1))

RECURSIVE Insert(_, _)
Insert(x, sorted) ==
    IF Len(sorted) = 0 THEN <<x>>
    ELSE IF StrLess(x, sorted[1]) THEN <<x>> \o sorted
    ELSE <<sorted[1]>> \o Insert(x, Tail(sorted))

\* paths.sort()
RECURSIVE SortPaths(_)
SortPaths(paths) ==
    IF Len(paths) = 0 THEN <<>>
    ELSE Insert(paths[Len(paths)], SortPaths(SubSeq(paths, 1, Len(paths) - 1)))

---------------------------------------------------------------------------
(* Paths (posix).                                                          *)

\* normalizeString: resolves "." and ".." segments and drops empty ones
RECURSIVE NormalizeSegs(_, _, _)
NormalizeSegs(segs, acc, allowAboveRoot) ==
    IF Len(segs) = 0 THEN acc
    ELSE LET s == segs[1]
             rest == Tail(segs)
         IN  IF s = "" \/ s = "." THEN NormalizeSegs(rest, acc, allowAboveRoot)
             ELSE IF s = ".."
                  THEN IF Len(acc) > 0 /\ acc[Len(acc)] # ".."
                       THEN NormalizeSegs(rest, SubSeq(acc, 1, Len(acc) - 1), allowAboveRoot)
                       ELSE IF allowAboveRoot
                            THEN NormalizeSegs(rest, Append(acc, ".."), allowAboveRoot)
                            ELSE NormalizeSegs(rest, acc, allowAboveRoot)
             ELSE NormalizeSegs(rest, Append(acc, s), allowAboveRoot)

\* posix.normalize
Normalize(path) ==
    IF Len(path) = 0 THEN "."
    ELSE LET isAbsolute == Char(path, 1) = "/"
             trailing == Char(path, Len(path)) = "/"
             body == JoinWith(NormalizeSegs(Split(path, "/"), <<>>, ~isAbsolute), "/")
             body2 == IF Len(body) = 0 /\ ~isAbsolute THEN "." ELSE body
             body3 == IF Len(body2) > 0 /\ trailing THEN body2 \o "/" ELSE body2
         IN  IF isAbsolute THEN "/" \o body3 ELSE body3

\* join: the non-empty arguments joined with "/" and normalized
Join(parts) ==
    LET kept == SelectSeq(parts, LAMBDA p : Len(p) > 0)
    IN  IF Len(kept) = 0 THEN "." ELSE Normalize(JoinWith(kept, "/"))

RECURSIVE CommonPrefix(_, _)
CommonPrefix(a, b) ==
    IF Len(a) = 0 \/ Len(b) = 0 \/ a[1] # b[1] THEN 0
    ELSE 1 + CommonPrefix(Tail(a), Tail(b))

\* relative(from, to) of two absolute paths
Relative(from, to) ==
    LET f == NormalizeSegs(Split(from, "/"), <<>>, FALSE)
        t == NormalizeSegs(Split(to, "/"), <<>>, FALSE)
        k == CommonPrefix(f, t)
    IN  JoinWith([i \in 1..(Len(f) - k) |-> ".."] \o SubSeq(t, k + 1, Len(t)), "/")

---------------------------------------------------------------------------
(* collectDir.                                                             *)

\* exts of the walk
Exts == {"tsx", "jsx", "ts", "js"}

\* the project directory: dirname(fromFileUrl(base))
ProjectDir == "/p"

ScanIds == {"routes", "islands"}

\* join(dir, "./routes"), join(dir, "./islands")
DirPath(d) == Join(<<ProjectDir, "./" \o d>>)

\* what walk(dir, {includeDirs: false, includeFiles: true, exts}) yields:
\* the files below dir whose path ends with one of the extensions
WalkEntries(dir) ==
    {e \in dir.entries : e.isFile /\ \E x \in Exts : EndsWith(e.path, "." \o x)}

\* variant: the extension is not stripped (slice(0) for slice(0, -1))
FileNameWithExt(dirPath, entryPath) ==
    LET parts == Split(Relative(dirPath, entryPath), ".")
    IN  JoinWith(SubSeq(parts, 1, Len(parts)), ".")

\* relative(dir, entry.path).split(".").slice(0, -1).join(".")
FileNameWithoutExt(dirPath, entryPath) ==
    LET parts == Split(Relative(dirPath, entryPath), ".")
    IN  JoinWith(SubSeq(parts, 1, Len(parts) - 1), ".")

ScanOff == [pc |-> "off", todo |-> {}, fileNames |-> {}, paths |-> <<>>, err |-> "none"]

ScanStart == [ScanOff EXCEPT !.pc = "stat"]

\* Deno.stat(dir) and the creation of the walk
StatResult(dir) ==
    CASE dir.kind = "dir" ->
            [ScanOff EXCEPT !.pc = "walk", !.todo = WalkEntries(dir)]
      [] dir.kind \in {"file", "missing"} ->
            [ScanOff EXCEPT !.pc = "done"]
      [] OTHER ->
            [ScanOff EXCEPT !.pc = "threw", !.err = "stat"]

\* one iteration of the for-await loop over the walk, on entry e
WalkResult(s, dirPath, e) ==
    LET key == FileNameWithoutExt(dirPath, e.path)
    IN  IF key \in s.fileNames
        THEN [s EXCEPT !.pc = "threw", !.err = "conflict", !.todo = {}]
        ELSE [s EXCEPT !.todo = s.todo \ {e},
                       !.fileNames = s.fileNames \cup {key},
                       !.paths = Append(s.paths, Relative(dirPath, e.path))]

\* variant: the paths are returned in the order of the walk
UnsortedResult(s) == [s EXCEPT !.pc = "done"]

\* the end of the walk: paths.sort(); return paths
SortResult(s) == [s EXCEPT !.pc = "done", !.paths = SortPaths(s.paths)]

StatDir(d) ==
    /\ pc = "scan"
    /\ scan[d].pc = "stat"
    /\ scan' = [scan EXCEPT ![d] = StatResult(dirs[d])]
    /\ UNCHANGED <<pc, cycle, dirs, uc, env, genFile, assets, depFile, local, hist, host, call>>

WalkEntry(d) ==
    /\ pc = "scan"
    /\ scan[d].pc = "walk"
    /\ \E e \in scan[d].todo :
          scan' = [scan EXCEPT ![d] = WalkResult(scan[d], DirPath(d), e)]
    /\ UNCHANGED <<pc, cycle, dirs, uc, env, genFile, assets, depFile, local, hist, host, call>>

WalkEnd(d) ==
    /\ pc = "scan"
    /\ scan[d].pc = "walk"
    /\ scan[d].todo = {}
    /\ scan' = [scan EXCEPT ![d] = SortResult(scan[d])]
    /\ UNCHANGED <<pc, cycle, dirs, uc, env, genFile, assets, depFile, local, hist, host, call>>

---------------------------------------------------------------------------
(* JSON: the value kept in the environment variable, and the keys of the   *)
(* generated module.                                                       *)

\* JSON.stringify of a string: quoted, with '"' and '\' escaped
RECURSIVE EscapeFrom(_, _)
EscapeFrom(s, i) ==
    IF i > Len(s) THEN ""
    ELSE LET c == Char(s, i)
         IN  (IF c = "\"" \/ c = "\\" THEN "\\" \o c ELSE c) \o EscapeFrom(s, i + 1)

JSONString(s) == "\"" \o EscapeFrom(s, 1) \o "\""

\* JSON.stringify of an array of strings
JSONArray(a) == "[" \o JoinWith([i \in 1..Len(a) |-> JSONString(a[i])], ",") \o "]"

\* JSON.stringify({routes, islands})
JSONStringify(m) ==
    "{" \o JSONString("routes") \o ":" \o JSONArray(m.routes) \o ","
        \o JSONString("islands") \o ":" \o JSONArray(m.islands) \o "}"

\* the string literal starting at s[i] (a '"'): its value and the position after it
RECURSIVE ParseChars(_, _, _)
ParseChars(s, i, acc) ==
    IF Char(s, i) = "\"" THEN [val |-> acc, next |-> i + 1]
    ELSE IF Char(s, i) = "\\" THEN ParseChars(s, i + 2, acc \o Char(s, i + 1))
    ELSE ParseChars(s, i + 1, acc \o Char(s, i))

ParseString(s, i) == ParseChars(s, i + 1, "")

\* the array of strings starting at s[i] (a '[')
RECURSIVE ParseElems(_, _, _)
ParseElems(s, i, acc) ==
    LET e == ParseString(s, i)
        acc2 == Append(acc, e.val)
    IN  IF Char(s, e.next) = "," THEN ParseElems(s, e.next + 1, acc2)
        ELSE [val |-> acc2, next |-> e.next + 1]

ParseArray(s, i) ==
    IF Char(s, i + 1) = "]" THEN [val |-> <<>>, next |-> i + 2]
    ELSE ParseElems(s, i + 1, <<>>)

\* JSON.parse of an object of two members whose values are arrays of strings
JSONParse(s) ==
    LET k1 == ParseString(s, 2)
        v1 == ParseArray(s, k1.next + 1)
        k2 == ParseString(s, v1.next + 1)
        v2 == ParseArray(s, k2.next + 1)
        member(k) == IF k2.val = k THEN v2.val ELSE v1.val
    IN  [routes |-> member("routes"), islands |-> member("islands")]

---------------------------------------------------------------------------
(* The change detector.                                                    *)

RECURSIVE ArraysEqualFrom(_, _, _)
ArraysEqualFrom(a, b, i) ==
    IF i > Len(a) THEN TRUE
    ELSE IF a[i] # b[i] THEN FALSE
    ELSE ArraysEqualFrom(a, b, i + 1)

\* variant: only the lengths are compared
arraysEqualLength(a, b) == Len(a) = Len(b)

arraysEqual(a, b) ==
    IF Len(a) # Len(b) THEN FALSE ELSE ArraysEqualFrom(a, b, 1)

EmptyManifest == [routes |-> <<>>, islands |-> <<>>]

\* const prevManifest = Deno.env.get(..); if (prevManifest) JSON.parse(..) else empty
currentManifest(e) ==
    IF e.set /\ Len(e.value) > 0 THEN JSONParse(e.value) ELSE EmptyManifest

manifestChanged(new, cur) ==
    ~arraysEqual(new.routes, cur.routes) \/ ~arraysEqual(new.islands, cur.islands)

---------------------------------------------------------------------------
(* The manifest generator.                                                 *)

RECURSIVE ReplaceBackslashFrom(_, _)
ReplaceBackslashFrom(s, i) ==
    IF i > Len(s) THEN ""
    ELSE (IF Char(s, i) = "\\" THEN "/" ELSE Char(s, i)) \o ReplaceBackslashFrom(s, i + 1)

\* variant: backslashes are kept
toImportSpecifierKeepingBackslashes(file) ==
    LET specifier == Normalize(file)
    IN  IF ~StartsWith(specifier, "..") THEN "./" \o specifier ELSE specifier

toImportSpecifier(file) ==
    LET specifier == ReplaceBackslashFrom(Normalize(file), 1)
    IN  IF ~StartsWith(specifier, "..") THEN "./" \o specifier ELSE specifier

\* the module text of generate, by its parts: the import statements, the entries of
\* the routes and islands object literals (key text and alias) and the baseUrl field
output(directory, cwd, manifest) ==
    LET routes == manifest.routes
        islands == manifest.islands
        rel == Relative(directory, cwd)
    IN  [imports |->
            [i \in 1..Len(routes) |->
                [alias |-> "$" \o ToString(i - 1),
                 from |-> toImportSpecifier(Join(<<rel, "routes", routes[i]>>))]]
            \o
            [i \in 1..Len(islands) |->
                [alias |-> "$$" \o ToString(i - 1),
                 from |-> toImportSpecifier(Join(<<rel, "islands", islands[i]>>))]],
         routes |->
            [i \in 1..Len(routes) |->
                [key |-> JSONString(toImportSpecifier(Join(<<"routes", routes[i]>>))),
                 alias |-> "$" \o ToString(i - 1)]],
         islands |->
            [i \in 1..Len(islands) |->
                [key |-> JSONString(toImportSpecifier(Join(<<"islands", islands[i]>>))),
                 alias |-> "$$" \o ToString(i - 1)]],
         baseUrl |-> TRUE]

\* the object an object literal of the module evaluates to: a later entry of the
\* same key replaces an earlier one
RECURSIVE ObjectOf(_, _)
ObjectOf(entries, obj) ==
    IF Len(entries) = 0 THEN obj
    ELSE LET k == ParseString(entries[1].key, 1).val
         IN  ObjectOf(Tail(entries),
                      [x \in DOMAIN obj \cup {k} |->
                          IF x = k THEN entries[1].alias ELSE obj[x]])

EmptyObject == [x \in {} |-> ""]

\* (await import(manifestUrl)).default
ModuleDefault(text) ==
    [routes |-> ObjectOf(text.routes, EmptyObject),
     islands |-> ObjectOf(text.islands, EmptyObject),
     baseUrl |-> text.baseUrl]

---------------------------------------------------------------------------
(* The entrypoint collector.                                               *)

\* entryPoints[k] = v
Assign(obj, k, v) == [x \in DOMAIN obj \cup {k} |-> IF x = k THEN v ELSE obj[x]]

\* for (const island of islands) entryPoints[`island-${island.id}`] = island.url
RECURSIVE AddIslands(_, _)
AddIslands(obj, islands) ==
    IF Len(islands) = 0 THEN obj
    ELSE AddIslands(Assign(obj, "island-" \o islands[1].id, islands[1].url), Tail(islands))

\* for (const [name, url] of Object.entries(plugin.entrypoints ?? {})) ...
RECURSIVE AddPluginEntries(_, _, _)
AddPluginEntries(obj, pluginName, entries) ==
    IF Len(entries) = 0 THEN obj
    ELSE AddPluginEntries(
            Assign(obj, "plugin-" \o pluginName \o "-" \o entries[1].name, entries[1].url),
            pluginName, Tail(entries))

\* for (const plugin of plugins) ...
RECURSIVE AddPlugins(_, _)
AddPlugins(obj, plugins) ==
    IF Len(plugins) = 0 THEN obj
    ELSE LET p == plugins[1]
             entries == IF p.entrypoints.defined THEN p.entrypoints.entries ELSE <<>>
         IN  AddPlugins(AddPluginEntries(obj, p.name, entries), Tail(plugins))

\* variant: the signals entry is added without the probe
collectEntrypointsUnprobed(dev, islands, plugins, signals) ==
    LET entrypointBase == "../runtime/entrypoints"
        builtin == Assign(
            Assign(EmptyObject, "main",
                   IF dev THEN entrypointBase \o "/main_dev.ts"
                          ELSE entrypointBase \o "/main.ts"),
            "deserializer", entrypointBase \o "/deserializer.ts")
        probed == Assign(builtin, "signals", entrypointBase \o "/signals.ts")
    IN  AddPlugins(AddIslands(probed, islands), plugins)

\* signals: whether import.meta.resolve("@preact/signals") succeeds in this environment
collectEntrypoints(dev, islands, plugins, signals) ==
    LET entrypointBase == "../runtime/entrypoints"
        builtin == Assign(
            Assign(EmptyObject, "main",
                   IF dev THEN entrypointBase \o "/main_dev.ts"
                          ELSE entrypointBase \o "/main.ts"),
            "deserializer", entrypointBase \o "/deserializer.ts")
        probed == IF signals
                  THEN Assign(builtin, "signals", entrypointBase \o "/signals.ts")
                  ELSE builtin
    IN  AddPlugins(AddIslands(probed, islands), plugins)

---------------------------------------------------------------------------
(* The dev cycle.                                                          *)

MIN_DENO_VERSION == <<1, 31, 0>>

\* gte of two versions major.minor.patch
gte(v, w) ==
    \/ v[1] > w[1]
    \/ v[1] = w[1] /\ v[2] > w[2]
    \/ v[1] = w[1] /\ v[2] = w[2] /\ v[3] >= w[3]

\* fromFileUrl(new URL(freshConfig.outDir ?? ".fresh", base).href)
OutDir == Join(<<ProjectDir, ".fresh">>)

NoFile == [exists |-> FALSE]

NoLocal ==
    [routePaths |-> <<>>, islandPaths |-> <<>>, manifestChanged |-> FALSE,
     hasOutDir |-> FALSE, manifest |-> NoFile, snapshot |-> {}]

\* the order of Object.entries over the keys of an object
RECURSIVE KeysInOrder(_)
KeysInOrder(keys) ==
    IF keys = {} THEN <<>>
    ELSE LET k == CHOOSE x \in keys : \A y \in keys : x = y \/ StrLess(x, y)
         IN  <<k>> \o KeysInOrder(keys \ {k})

\* the islands the context loader derives from the loaded manifest module
prepareIslands(manifest) ==
    LET keys == KeysInOrder(DOMAIN manifest.islands)
    IN  [i \in 1..Len(keys) |-> [id |-> keys[i], url |-> manifest.islands[keys[i]]]]

\* the state of the output files and of the environment variable
Outputs == [env |-> env, genFile |-> genFile, assets |-> assets, depFile |-> depFile]

Done(step) == [hist EXCEPT !.trace = Append(hist.trace, step)]

Halt(step) == [hist EXCEPT !.cause = step]

\* dev is called: a new cycle of the process, on the directories as they are now
StartCycle(newDirs) ==
    /\ pc \in {"idle", "halted", "running"}
    /\ cycle < MaxCycles
    /\ cycle' = cycle + 1
    /\ dirs' = newDirs
    /\ pc' = "version"
    /\ scan' = [d \in ScanIds |-> ScanOff]
    /\ uc' = "none"
    /\ local' = NoLocal
    /\ hist' = [hist EXCEPT !.trace = <<>>, !.cause = "none", !.pre = Outputs,
                            !.prevCollected = hist.lastCollected]
    /\ UNCHANGED <<env, genFile, assets, depFile, host, call>>

\* error(message): reports the message and ends the run
error(step) ==
    /\ pc' = "halted"
    /\ hist' = Halt(step)

\* ensureMinDenoVersion()
ensureMinDenoVersion ==
    /\ pc = "version"
    /\ IF ~gte(host.deno, MIN_DENO_VERSION)
       THEN error("version")
       ELSE pc' = "update" /\ hist' = Done("version")
    /\ UNCHANGED <<cycle, dirs, scan, uc, env, genFile, assets, depFile, local, host, call>>

\* updateCheck(DAY).catch(() => {}), then Promise.all starts the two collectDir calls
StartScans ==
    /\ pc = "update"
    /\ uc' = "pending"
    /\ pc' = "scan"
    /\ scan' = [d \in ScanIds |-> ScanStart]
    /\ hist' = Done("update")
    /\ UNCHANGED <<cycle, dirs, env, genFile, assets, depFile, local, host, call>>

\* variant: no handler catches the rejection, which ends the run
UpdateCheckUncaught(ok) ==
    /\ uc = "pending"
    /\ uc' = IF ok THEN "ok" ELSE "failed"
    /\ IF ok THEN UNCHANGED <<pc, hist>> ELSE pc' = "halted" /\ hist' = Halt("update")
    /\ UNCHANGED <<cycle, dirs, scan, env, genFile, assets, depFile, local, host, call>>

\* the update check settles; its rejection is caught by the empty handler
UpdateCheckSettles(ok) ==
    /\ uc = "pending"
    /\ uc' = IF ok THEN "ok" ELSE "failed"
    /\ UNCHANGED <<pc, cycle, dirs, scan, env, genFile, assets, depFile, local, hist, host, call>>

\* Promise.all rejects as soon as one collectDir call has thrown
ScansReject ==
    /\ pc = "scan"
    /\ \E d \in ScanIds : scan[d].pc = "threw"
    /\ pc' = "halted"
    /\ hist' = Halt("scan")
    /\ UNCHANGED <<cycle, dirs, scan, uc, env, genFile, assets, depFile, local, host, call>>

\* variant: the cycle goes on as soon as one of the two scans has returned
DetectChangeAfterAny ==
    /\ pc = "scan"
    /\ \E d \in ScanIds : scan[d].pc = "done"
    /\ LET newManifest == [routes |-> scan["routes"].paths,
                           islands |-> scan["islands"].paths]
       IN  /\ env' = [set |-> TRUE, value |-> JSONStringify(newManifest)]
           /\ local' = [local EXCEPT
                          !.routePaths = newManifest.routes,
                          !.islandPaths = newManifest.islands,
                          !.manifestChanged =
                              manifestChanged(newManifest, currentManifest(env))]
           /\ hist' = [Done("scan") EXCEPT !.lastCollected = newManifest]
    /\ pc' = "exists"
    /\ UNCHANGED <<cycle, dirs, scan, uc, genFile, assets, depFile, host, call>>

\* Promise.all resolves; the previous manifest is read from the environment, the new
\* one is stored there and the two are compared
DetectChange ==
    /\ pc = "scan"
    /\ \A d \in ScanIds : scan[d].pc = "done"
    /\ LET newManifest == [routes |-> scan["routes"].paths,
                           islands |-> scan["islands"].paths]
       IN  /\ env' = [set |-> TRUE, value |-> JSONStringify(newManifest)]
           /\ local' = [local EXCEPT
                          !.routePaths = newManifest.routes,
                          !.islandPaths = newManifest.islands,
                          !.manifestChanged =
                              manifestChanged(newManifest, currentManifest(env))]
           /\ hist' = [Done("scan") EXCEPT !.lastCollected = newManifest]
    /\ pc' = "exists"
    /\ UNCHANGED <<cycle, dirs, scan, uc, genFile, assets, depFile, host, call>>

\* variant: the assets directory is cleared only when the manifest is regenerated
CheckExistsClearingInGenerate ==
    /\ pc = "exists"
    /\ local' = [local EXCEPT !.hasOutDir = genFile.exists]
    /\ pc' = IF ~genFile.exists \/ local.manifestChanged THEN "generate" ELSE "import"
    /\ hist' = Done("exists")
    /\ UNCHANGED <<cycle, dirs, scan, uc, env, genFile, assets, depFile, host, call>>

\* const hasOutDir = await exists(manifestUrl); if (!hasOutDir || manifestChanged)
CheckExists ==
    /\ pc = "exists"
    /\ local' = [local EXCEPT !.hasOutDir = genFile.exists]
    /\ pc' = IF ~genFile.exists \/ local.manifestChanged THEN "generate" ELSE "emptyDir"
    /\ hist' = Done("exists")
    /\ UNCHANGED <<cycle, dirs, scan, uc, env, genFile, assets, depFile, host, call>>

\* await generate(outDir, dir, newManifest)
generate ==
    /\ pc = "generate"
    /\ genFile' = [exists |-> TRUE,
                   text |-> output(OutDir, ProjectDir,
                                   [routes |-> local.routePaths,
                                    islands |-> local.islandPaths])]
    /\ pc' = "emptyDir"
    /\ hist' = Done("generate")
    /\ UNCHANGED <<cycle, dirs, scan, uc, env, assets, depFile, local, host, call>>

\* await emptyDir(join(outDir, "files"))
ClearAssets ==
    /\ pc = "emptyDir"
    /\ assets' = [exists |-> TRUE, bundles |-> {}]
    /\ pc' = "import"
    /\ hist' = Done("emptyDir")
    /\ UNCHANGED <<cycle, dirs, scan, uc, env, genFile, depFile, local, host, call>>

\* const manifest = (await import(manifestUrl)).default
ImportManifest ==
    /\ pc = "import"
    /\ local' = [local EXCEPT !.manifest = ModuleDefault(genFile.text)]
    /\ pc' = "config"
    /\ hist' = Done("import")
    /\ UNCHANGED <<cycle, dirs, scan, uc, env, genFile, assets, depFile, host, call>>

\* await readDenoConfig(dir)
ReadConfig ==
    /\ pc = "config"
    /\ pc' = "build"
    /\ hist' = Done("config")
    /\ UNCHANGED <<cycle, dirs, scan, uc, env, genFile, assets, depFile, local, host, call>>

\* collectEntrypoints(true, prepareIslands(..), plugins) and await build({..}):
\* the bundler writes one bundle per entrypoint and reports their dependencies
Build ==
    /\ pc = "build"
    /\ LET entrypoints == collectEntrypoints(TRUE, prepareIslands(local.manifest),
                                             host.plugins, host.signals)
       IN  /\ assets' = [exists |-> TRUE, bundles |-> DOMAIN entrypoints]
           /\ local' = [local EXCEPT !.snapshot = DOMAIN entrypoints]
    /\ pc' = "writeDeps"
    /\ hist' = Done("build")
    /\ UNCHANGED <<cycle, dirs, scan, uc, env, genFile, depFile, host, call>>

\* await Deno.writeTextFile(join(outDir, "fresh.dependencies.js"), ..)
WriteDependencies ==
    /\ pc = "writeDeps"
    /\ depFile' = [exists |-> TRUE, dependencies |-> local.snapshot]
    /\ pc' = "entry"
    /\ hist' = Done("writeDeps")
    /\ UNCHANGED <<cycle, dirs, scan, uc, env, genFile, assets, local, host, call>>

\* await import(entrypoint): control passes to the application
ImportEntrypoint ==
    /\ pc = "entry"
    /\ pc' = "running"
    /\ hist' = Done("entry")
    /\ UNCHANGED <<cycle, dirs, scan, uc, env, genFile, assets, depFile, local, host, call>>

\* the awaited steps that may throw; dev catches nothing, so the cycle ends there
FailingSteps == {"generate", "emptyDir", "import", "config", "build", "writeDeps", "entry"}

StepThrows ==
    /\ pc \in FailingSteps
    /\ pc' = "halted"
    /\ hist' = Halt(pc)
    /\ UNCHANGED <<cycle, dirs, scan, uc, env, genFile, assets, depFile, local, host, call>>

---------------------------------------------------------------------------
(* The dev cycles of one process.                                          *)

\* a directory state: what Deno.stat finds at the path and, for a directory, the
\* entries below it (paths relative to it given by rels)
DirState(d, kind, rels, subdirs) ==
    [kind |-> kind,
     entries |-> {[path |-> DirPath(d) \o "/" \o r, isFile |-> TRUE] : r \in rels}
                 \cup {[path |-> DirPath(d) \o "/" \o r, isFile |-> FALSE] : r \in subdirs}]

DevRouteDirs ==
    {DirState("routes", "missing", {}, {}),
     DirState("routes", "denied", {}, {}),
     DirState("routes", "dir", {"a.ts"}, {}),
     DirState("routes", "dir", {"b.ts"}, {}),
     DirState("routes", "dir", {"a.ts", "a.tsx"}, {})}

DevIslandDirs ==
    {DirState("islands", "dir", {}, {}),
     DirState("islands", "dir", {"c.tsx"}, {}),
     DirState("islands", "dir", {"c.tsx", "c.jsx"}, {})}

DenoVersions == {<<1, 30, 3>>, <<1, 31, 0>>}

DevPlugins ==
    <<[name |-> "p",
       entrypoints |-> [defined |-> TRUE, entries |-> <<[name |-> "e", url |-> "p/e.ts"]>>]]>>

NoCall == [fn |-> "none"]

NoHist ==
    [trace |-> <<>>, cause |-> "none",
     pre |-> [env |-> [set |-> FALSE, value |-> ""], genFile |-> NoFile,
              assets |-> NoFile, depFile |-> NoFile],
     prevCollected |-> EmptyManifest, lastCollected |-> EmptyManifest]

Init ==
    /\ pc = "idle"
    /\ cycle = 0
    /\ dirs = [d \in ScanIds |-> DirState(d, "missing", {}, {})]
    /\ scan = [d \in ScanIds |-> ScanOff]
    /\ uc = "none"
    /\ env = [set |-> FALSE, value |-> ""]
    /\ genFile = NoFile
    /\ assets = NoFile
    /\ depFile = NoFile
    /\ local = NoLocal
    /\ hist = NoHist
    /\ host \in [deno : DenoVersions, signals : BOOLEAN, plugins : {DevPlugins}]
    /\ call = NoCall

Next ==
    \/ \E r \in DevRouteDirs, i \in DevIslandDirs :
          StartCycle([routes |-> r, islands |-> i])
    \/ ensureMinDenoVersion
    \/ StartScans
    \/ \E ok \in BOOLEAN : UpdateCheckSettles(ok)
    \/ \E d \in ScanIds : StatDir(d)
    \/ \E d \in ScanIds : WalkEntry(d)
    \/ \E d \in ScanIds : WalkEnd(d)
    \/ ScansReject
    \/ DetectChange
    \/ CheckExists
    \/ generate
    \/ ClearAssets
    \/ ImportManifest
    \/ ReadConfig
    \/ Build
    \/ WriteDependencies
    \/ ImportEntrypoint
    \/ StepThrows

Spec == Init /\ [][Next]_vars

---------------------------------------------------------------------------
(* collectDir on its own: the two calls of one Promise.all, over directory  *)
(* trees drawn from a universe of entries, the walk yielding in any order.  *)

\* files: two pairs that differ in the extension only, a name with several dots, files
\* the walk does not match
CollectFiles == {"a.ts", "a.tsx", "b/c.js", "b/c.jsx", "b/c.d.ts", "a.md", "ats"}

\* directories, one of them named like a source file
CollectSubdirs == {"b", "d.ts"}

CollectTrees ==
    {DirState("routes", "dir", fs, ds) :
        fs \in {x \in SUBSET CollectFiles : Cardinality(x) <= MaxEntries},
        ds \in {x \in SUBSET CollectSubdirs : Cardinality(x) <= MaxEntries - 2}}

CollectOthers ==
    {DirState("islands", k, {}, {}) : k \in {"missing", "file", "denied", "dir"}}

InitCollect ==
    /\ pc = "scan"
    /\ cycle = 1
    /\ dirs \in [routes : CollectTrees, islands : CollectOthers]
    /\ scan = [d \in ScanIds |-> ScanStart]
    /\ uc = "pending"
    /\ env = [set |-> FALSE, value |-> ""]
    /\ genFile = NoFile
    /\ assets = NoFile
    /\ depFile = NoFile
    /\ local = NoLocal
    /\ hist = [NoHist EXCEPT !.trace = <<"version", "update">>]
    /\ host = [deno |-> MIN_DENO_VERSION, signals |-> FALSE, plugins |-> <<>>]
    /\ call = NoCall

NextCollect ==
    \/ \E d \in ScanIds : StatDir(d)
    \/ \E d \in ScanIds : WalkEntry(d)
    \/ \E d \in ScanIds : WalkEnd(d)

SpecCollect == InitCollect /\ [][NextCollect]_vars

\* the path of an entry below directory d, relative to d
RelOf(d, e) == SubSeq(e.path, Len(DirPath(d)) + 2, Len(e.path))

\* the extension of a relative path: what follows the last dot of its last segment
ExtOf(rel) ==
    LET segs == Split(rel, "/")
        parts == Split(segs[Len(segs)], ".")
    IN  IF Len(parts) >= 2 THEN parts[Len(parts)] ELSE ""

\* the relative paths of the files of d with an allow-listed extension
SourceFiles(d) ==
    {RelOf(d, e) : e \in {x \in dirs[d].entries : x.isFile /\ ExtOf(RelOf(d, x)) \in Exts}}

\* a relative path with its final extension stripped
Stem(rel) == SubSeq(rel, 1, Len(rel) - Len(ExtOf(rel)) - 1)

HasConflict(d) ==
    \E f, g \in SourceFiles(d) : f # g /\ Stem(f) = Stem(g)

Returned(d) == scan[d].pc = "done"

Threw(d) == scan[d].pc = "threw"

\* C4: a directory tree holding two or more files with allow-listed extensions whose
\* relative paths are equal once the final extension is stripped makes collectDir
\* fail with a route conflict and return no list, whatever the order of the walk.
C4_ConflictFails ==
    \A d \in ScanIds :
        (dirs[d].kind = "dir" /\ HasConflict(d) /\ scan[d].pc \in {"walk", "done", "threw"})
            => /\ ~Returned(d)
               /\ (scan[d].pc = "walk" => scan[d].todo # {})
               /\ (Threw(d) => scan[d].err = "conflict")

C4_Witness ==
    /\ Threw("routes")
    /\ scan["routes"].err = "conflict"
    /\ {"b/c.js", "b/c.jsx", "a.ts"} \subseteq SourceFiles("routes")

IsSorted(paths) == \A i \in 1..(Len(paths) - 1) : StrLess(paths[i], paths[i + 1])

\* C5: collectDir returns the empty sequence, without an error, for a path that does
\* not exist or is not a directory; for a tree without duplicate keys it returns,
\* without an error, the sorted sequence holding exactly one relative path per file
\* with an allow-listed extension, whatever the order of the walk.
C5_CollectsSorted ==
    \A d \in ScanIds :
        /\ (dirs[d].kind \in {"missing", "file"} /\ scan[d].pc # "stat")
              => Returned(d) /\ scan[d].paths = <<>>
        /\ (dirs[d].kind = "dir" /\ ~HasConflict(d))
              => /\ ~Threw(d)
                 /\ Returned(d) =>
                       /\ IsSorted(scan[d].paths)
                       /\ {scan[d].paths[i] : i \in 1..Len(scan[d].paths)} = SourceFiles(d)
                       /\ Len(scan[d].paths) = Cardinality(SourceFiles(d))

C5_Witness ==
    /\ Returned("routes")
    /\ Len(scan["routes"].paths) >= 3
    /\ \E e \in dirs["routes"].entries : RelOf("routes", e) \notin SourceFiles("routes")
    /\ Returned("islands")
    /\ dirs["islands"].kind = "file"

---------------------------------------------------------------------------
(* Calls of the pure functions, on arguments drawn from bounded sets.      *)

SeqsUpTo(S, n) == UNION {[1..k -> S] : k \in 0..n}

NoRepeat(q) == \A i, j \in 1..Len(q) : i # j => q[i] # q[j]

Idle ==
    /\ pc = "idle"
    /\ cycle = 0
    /\ dirs = [d \in ScanIds |-> DirState(d, "missing", {}, {})]
    /\ scan = [d \in ScanIds |-> ScanOff]
    /\ uc = "none"
    /\ env = [set |-> FALSE, value |-> ""]
    /\ genFile = NoFile
    /\ assets = NoFile
    /\ depFile = NoFile
    /\ local = NoLocal
    /\ hist = NoHist
    /\ host = [deno |-> MIN_DENO_VERSION, signals |-> FALSE, plugins |-> <<>>]

Islands == [id : {"x", "y"}, url : {"u1", "u2"}]

\* the entries of a plugin's entrypoints object: distinct names, in insertion order
PluginEntries ==
    {[i \in 1..Len(q) |-> [name |-> q[i], url |-> "v/" \o q[i]]] :
        q \in {x \in SeqsUpTo({"c", "b-c"}, 2) : NoRepeat(x)}}

Plugins ==
    [name : {"a", "a-b"},
     entrypoints : {[defined |-> FALSE, entries |-> <<>>]}
                   \cup {[defined |-> TRUE, entries |-> es] : es \in PluginEntries}]

InitEntry ==
    /\ Idle
    /\ call \in [fn : {"collectEntrypoints"}, dev : BOOLEAN, signals : BOOLEAN,
                 islands : SeqsUpTo(Islands, MaxIslands),
                 plugins : SeqsUpTo(Plugins, MaxPlugins),
                 done : {FALSE}, result : {EmptyObject}]

CallCollectEntrypoints ==
    /\ call.fn = "collectEntrypoints"
    /\ ~call.done
    /\ call' = [call EXCEPT
                  !.done = TRUE,
                  !.result = collectEntrypoints(call.dev, call.islands, call.plugins,
                                                call.signals)]
    /\ UNCHANGED <<pc, cycle, dirs, scan, uc, env, genFile, assets, depFile, local, hist, host>>

SpecEntry == InitEntry /\ [][CallCollectEntrypoints]_vars

\* the (plugin name, entry name) pairs the plugins declare, by their positions
PluginPairs ==
    {<<i, j>> \in (1..Len(call.plugins)) \X (1..2) :
        /\ call.plugins[i].entrypoints.defined
        /\ j <= Len(call.plugins[i].entrypoints.entries)}

PairName(p) ==
    <<call.plugins[p[1]].name, call.plugins[p[1]].entrypoints.entries[p[2]].name>>

\* C6: the map of collectEntrypoints holds main and deserializer, signals if and only
\* if the signals library resolves, island-<id> for every island, plugin-<name>-<entry>
\* for every entrypoint a plugin declares, and no other key.
C6_ExactKeys ==
    call.fn = "collectEntrypoints" /\ call.done =>
        DOMAIN call.result =
            {"main", "deserializer"}
            \cup (IF call.signals THEN {"signals"} ELSE {})
            \cup {"island-" \o call.islands[i].id : i \in 1..Len(call.islands)}
            \cup {"plugin-" \o PairName(p)[1] \o "-" \o PairName(p)[2] : p \in PluginPairs}

C6_Witness ==
    /\ call.fn = "collectEntrypoints" /\ call.done
    /\ ~call.signals
    /\ Len(call.islands) = 2
    /\ Cardinality(PluginPairs) >= 2
    /\ \E i \in 1..Len(call.plugins) : ~call.plugins[i].entrypoints.defined

\* C7: when the island ids are pairwise distinct and no two plugin entries share both
\* the plugin name and the entry name, every contributed entry has a key of its own:
\* there are as many keys as contributed entries.
C7_NoCollision ==
    (/\ call.fn = "collectEntrypoints" /\ call.done
     /\ \A i, j \in 1..Len(call.islands) :
           i # j => call.islands[i].id # call.islands[j].id
     /\ \A p, q \in PluginPairs : p # q => PairName(p) # PairName(q))
    => Cardinality(DOMAIN call.result) =
          2 + (IF call.signals THEN 1 ELSE 0) + Len(call.islands) + Cardinality(PluginPairs)

---------------------------------------------------------------------------

\* route paths as collectDir returns them; one holds a backslash
GenRoutes == {"a.ts", "b/c.ts", "b\\c.ts", "index.tsx"}

GenIslands == {"x.tsx", "y/z.tsx"}

\* output directories: the project directory itself, below it, two levels below it
GenDirs == {"/p", "/p/.fresh", "/p/out/gen"}

InitGen ==
    /\ Idle
    /\ call \in [fn : {"generate"}, directory : GenDirs, cwd : {ProjectDir},
                 routes : {q \in SeqsUpTo(GenRoutes, MaxRoutes) : NoRepeat(q)},
                 islands : {q \in SeqsUpTo(GenIslands, 2) : NoRepeat(q)},
                 done : {FALSE}, result : {NoFile}]

\* generate's module text and the module it evaluates to
CallGenerate ==
    /\ call.fn = "generate"
    /\ ~call.done
    /\ LET text == output(call.directory, call.cwd,
                          [routes |-> call.routes, islands |-> call.islands])
       IN  call' = [call EXCEPT
                      !.done = TRUE,
                      !.result = [exists |-> TRUE, text |-> text,
                                  module |-> ModuleDefault(text)]]
    /\ UNCHANGED <<pc, cycle, dirs, scan, uc, env, genFile, assets, depFile, local, hist, host>>

SpecGen == InitGen /\ [][CallGenerate]_vars

\* a path with its backslashes turned into forward slashes
ForwardSlashes(path) == JoinWith(Split(path, "\\"), "/")

Aliases == {call.result.text.imports[i].alias : i \in 1..Len(call.result.text.imports)}

DistinctAliases ==
    /\ Cardinality(Aliases) = Len(call.routes) + Len(call.islands)
    /\ \A k \in DOMAIN call.result.module.routes : call.result.module.routes[k] \in Aliases
    /\ \A i \in 1..Len(call.routes) :
          call.result.text.routes[i].alias = call.result.text.imports[i].alias

\* C8 as stated: the keys of the routes object are the route paths, forward-slash
\* normalized and prefixed with "./", one per route path, each mapped to an alias
\* distinct from every other alias, and the object has a baseUrl field.
C8_KeysAreDotSlashPaths ==
    call.fn = "generate" /\ call.done =>
        /\ DOMAIN call.result.module.routes =
              {"./" \o ForwardSlashes(call.routes[i]) : i \in 1..Len(call.routes)}
        /\ DistinctAliases
        /\ call.result.module.baseUrl

\* C8 as amended: the keys of the routes object are the route paths, forward-slash
\* normalized and prefixed with "./routes/", one per forward-slash normalized route
\* path and each entry keyed by its own path, each mapped to an alias distinct from
\* every other alias, and the object has a baseUrl field.
C8_KeysAreRoutesPaths ==
    call.fn = "generate" /\ call.done =>
        /\ DOMAIN call.result.module.routes =
              {"./routes/" \o ForwardSlashes(call.routes[i]) : i \in 1..Len(call.routes)}
        /\ \A i \in 1..Len(call.routes) :
              ParseString(call.result.text.routes[i].key, 1).val =
                  "./routes/" \o ForwardSlashes(call.routes[i])
        /\ DistinctAliases
        /\ call.result.module.baseUrl

C8_Witness ==
    /\ call.fn = "generate" /\ call.done
    /\ call.routes = <<"a.ts", "b/c.ts">>
    /\ DOMAIN call.result.module.routes = {"./routes/a.ts", "./routes/b/c.ts"}
    /\ call.directory = "/p/.fresh"

---------------------------------------------------------------------------
(* The dev cycles: what holds of them.                                     *)

InTrace(step) == \E i \in 1..Len(hist.trace) : hist.trace[i] = step

\* the manifest collected by the running cycle (once its scans have completed)
Collected == [routes |-> local.routePaths, islands |-> local.islandPaths]

\* generate has been called by the running cycle
CalledGenerate == pc = "generate" \/ InTrace("generate") \/ hist.cause = "generate"

\* the collected manifest differs from the one recorded by the most recent earlier
\* cycle that completed its scans
Differs ==
    \/ Collected.routes # hist.prevCollected.routes
    \/ Collected.islands # hist.prevCollected.islands

C2_LoadedManifestIsCurrent ==
    InTrace("emptyDir") =>
        /\ genFile.exists
        /\ genFile.text = output(OutDir, ProjectDir, Collected)

Prefix(p, q) == Len(p) <= Len(q) /\ SubSeq(q, 1, Len(p)) = p

\* the steps of a cycle in the order of dev, with or without the regeneration
Steps(regenerate) ==
    <<"version", "update", "scan", "exists">>
    \o (IF regenerate THEN <<"generate">> ELSE <<>>)
    \o <<"emptyDir", "import", "config", "build", "writeDeps", "entry">>

\* the update check fails: nothing of the cycle changes
UpdateFailureChangesNothing ==
    (uc = "pending" /\ uc' = "failed") =>
        UNCHANGED <<pc, cycle, dirs, scan, env, genFile, assets, depFile, local, hist>>

\* a step taken after the update check has failed is the step the cycle takes at its
\* position: the trace grows by that step, or the cycle halts on its failure
StepsUnaffected ==
    (uc = "failed" /\ pc' # pc /\ cycle' = cycle) =>
        \/ pc' = "halted" /\ hist'.cause = pc /\ hist'.trace = hist.trace
        \/ /\ pc' # "halted"
           /\ hist'.trace = Append(hist.trace, pc)
           /\ \E g \in BOOLEAN : Prefix(hist'.trace, Steps(g))
           /\ uc' = uc

\* a step fails: the cycle halts where it is
FailureHalts ==
    (pc # "halted" /\ pc' = "halted") =>
        /\ hist'.cause = pc
        /\ hist'.cause \in {"version", "scan"} \cup FailingSteps
        /\ hist'.trace = hist.trace
        /\ \A i \in 1..Len(hist'.trace) : hist'.trace[i] # "entry"
        /\ UNCHANGED <<env, genFile, assets, depFile, local>>

\* a halted cycle executes nothing more: the next thing to happen is a new cycle
HaltedStays ==
    pc = "halted" =>
        \/ pc' = "halted" /\ UNCHANGED <<env, genFile, assets, depFile, local, hist, scan>>
        \/ cycle' = cycle + 1 /\ pc' = "version"

\* C3: a failure of the update check, whenever it happens, changes nothing of the
\* cycle, and the steps taken after it are those of dev in their order; a failure of
\* any other step halts the cycle: no later step is executed and the entrypoint is
\* not imported.
C3_OnlyUpdateCheckSwallowed ==
    [][/\ UpdateFailureChangesNothing
       /\ StepsUnaffected
       /\ FailureHalts
       /\ HaltedStays]_vars

C3_Witness ==
    /\ uc = "failed"
    /\ pc = "halted"
    /\ hist.cause = "build"
    /\ hist.trace = <<"version", "update", "scan", "exists", "emptyDir", "import", "config">>

\* C9: the steps of a cycle happen in the order of dev, none skipped or repeated: the
\* assets directory is cleared whether or not the manifest was regenerated, the
\* bundler runs on the cleared directory and the loaded manifest module, the
\* dependency map holds what the bundler returned, and the entrypoint is imported
\* only once the dependency map is written.
C9_FixedOrder ==
    /\ \E g \in BOOLEAN : Prefix(hist.trace, Steps(g))
    /\ pc \in {"import", "config", "build"} => assets = [exists |-> TRUE, bundles |-> {}]
    /\ pc = "build" => local.manifest = ModuleDefault(genFile.text)
    /\ pc = "writeDeps" => assets.bundles = local.snapshot /\ local.snapshot # {}
    /\ pc \in {"entry", "running"} =>
          depFile = [exists |-> TRUE, dependencies |-> local.snapshot]
    /\ pc = "running" => \E g \in BOOLEAN : hist.trace = Steps(g)

C9_Witness ==
    /\ pc = "running"
    /\ hist.trace = Steps(FALSE)
    /\ cycle >= 2

\* C10: when one of the two directory scans fails, in every interleaving of the two
\* the cycle cannot go on to the change detection, it halts, and the environment
\* variable, the generated manifest file, the assets directory and the dependency
\* map are as they were when the cycle started.
C10_ScanFailureLeavesOutputs ==
    (\E d \in ScanIds : Threw(d)) =>
        /\ pc \in {"scan", "halted"}
        /\ pc = "halted" => hist.cause = "scan"
        /\ Outputs = hist.pre

C10_Witness ==
    /\ pc = "halted"
    /\ hist.cause = "scan"
    /\ Threw("islands") /\ scan["islands"].err = "conflict"
    /\ scan["routes"].pc = "walk"
    /\ hist.pre.genFile.exists /\ hist.pre.env.set /\ hist.pre.depFile.exists

=============================================================================
